---------------------------- MODULE Spec2Model ----------------------------
(***************************************************************************)
(* Model of pyannote/generators/fragment.py: the sliding-window and random *)
(* segment / track / triplet / pair generators.                            *)
(*                                                                         *)
(* Every generator is a Python generator function: calling iter_xxx()      *)
(* runs no code, and each pull (next()) runs the body up to the next       *)
(* yield, to the end of the body, or to a raised exception.  One action    *)
(* models one pull.  Times are integers; a Segment is a record             *)
(* [start, end].  random.random() is a draw r / RandDen, r in              *)
(* 0 .. RandDen-1, and the segments handed to the random generators lie on *)
(* a grid of RandDen ticks so that start + random() * length is exact.     *)
(***************************************************************************)
EXTENDS Integers, Sequences, FiniteSets, TLC

VARIABLES
    self,      \* the fields of the generator object, set by __init__
    source,    \* the argument of iter_segments / iter_triplets / iter_pairs
    pc,        \* "new" | "ready" | "called" | "running" | "done" | "error"
    err,       \* the exception that reached the caller, or NoError
    out,       \* the sequence of values yielded so far (sliding generators)
    loc,       \* the local variables of the suspended generator frame
    last,      \* the value most recently yielded (random generators)
    hist       \* what the pulls drew so far: counters and the choices made

vars == <<self, source, pc, err, out, loc, last, hist>>

-----------------------------------------------------------------------------
(* Bounds of the model *)

MaxLen == 5        \* longest source segment of the sliding generators
MaxDur == 3        \* largest duration / step / min_duration of a slider
RandDen == 2       \* random.random() takes the values 0/RandDen .. (RandDen-1)/RandDen
NumSegs == 2       \* candidate segments of an annotation
NumTracks == 2     \* candidate tracks of a segment
NumLabels == 3     \* candidate labels
MaxEntries == 3    \* (segment, track) entries of an annotation
MaxPerLabel == 2   \* largest per_label
MaxPulls == 3      \* pulls made on an endless generator

-----------------------------------------------------------------------------
(* Exceptions *)

NoError == "none"
DurationError == "ValueError: Duration must be strictly positive."
SourceTypeError == "TypeError: source must be float, Segment, Timeline or Annotation"
NoSegmentError == "ValueError: Source must contain at least one segment longer than requested duration."
WindowError == "ValueError: SlidingWindow 'duration' and 'step' must be > 0."
UndefinedNameError == "NameError: name is not defined"
EmptyRangeError == "ValueError: empty range for randrange()"

-----------------------------------------------------------------------------
(* pyannote.core values used by the generators *)

Segment(s, e) == [start |-> s, end |-> e]

Duration(seg) == seg.end - seg.start

\* (a containment test that rejects a window sharing a bound with the segment)
StrictlyInside(segment, s) == segment.start < s.start /\ segment.end > s.end

\* Segment.__contains__ as used by `s in segment`
SegmentContains(segment, s) == segment.start <= s.start /\ segment.end >= s.end

Max2(a, b) == IF a >= b THEN a ELSE b

Min2(a, b) == IF a <= b THEN a ELSE b

\* Segment.__and__ as used by `s & segment`
Intersect(a, b) == Segment(Max2(a.start, b.start), Min2(a.end, b.end))

SegLess(a, b) == a.start < b.start \/ (a.start = b.start /\ a.end < b.end)

\* A Timeline keeps its segments sorted and without duplicates
RECURSIVE SortSegs(_)
SortSegs(S) ==
    IF S = {} THEN <<>>
    ELSE LET m == CHOOSE x \in S : \A y \in S : x = y \/ SegLess(x, y)
         IN <<m>> \o SortSegs(S \ {m})

RangeOf(seq) == {seq[j] : j \in 1..Len(seq)}

IsSorted(seq) == \A j \in 1..(Len(seq) - 1) : SegLess(seq[j], seq[j + 1])

\* An Annotation is a function from its (segment, track) keys to labels
Keys(ann) == DOMAIN ann

\* Annotation.get_timeline()
GetTimeline(ann) == SortSegs({key[1] : key \in Keys(ann)})

\* Annotation.labels(): the labels in use, sorted
Labels(ann) == {ann[key] : key \in Keys(ann)}

\* Annotation.get_tracks(segment)
GetTracks(ann, segment) == {key[2] : key \in {x \in Keys(ann) : x[1] = segment}}

\* (a subset that ignores `invert`)
SubsetNeverInverted(ann, label, invert) ==
    [key \in {x \in Keys(ann) : ann[x] = label} |-> ann[key]]

\* Annotation.subset([label], invert)
Subset(ann, label, invert) ==
    [key \in {x \in Keys(ann) : (ann[x] = label) # invert} |-> ann[key]]

\* Annotation.label_timeline(label)
LabelTimeline(ann, label) == SortSegs({key[1] : key \in {x \in Keys(ann) : ann[x] = label}})

\* The option type of Python: None is the empty tuple, a value v is <<v>>
None == <<>>

Some(v) == <<v>>

-----------------------------------------------------------------------------
(* Sources *)

FloatSource(t) == [shape |-> "float", value |-> t]

SegmentSource(seg) == [shape |-> "Segment", segment |-> seg]

TimelineSource(segs) == [shape |-> "Timeline", segments |-> segs]

AnnotationSource(ann) == [shape |-> "Annotation", annotation |-> ann]

OtherSource == [shape |-> "str"]

NoSource == [shape |-> "unset"]

NoObject == [class |-> "none"]

NoFrame == [at |-> "none"]

NoValue == <<>>

NoHistory == [pulls |-> 0]

-----------------------------------------------------------------------------
(* SlidingSegments *)

\* SlidingSegments.__init__: no argument is checked
SlidingSegmentsNew(duration, step, min_duration) ==
    [class |-> "SlidingSegments",
     duration |-> duration,
     variable_length_ |-> (min_duration # None),
     min_duration |-> IF min_duration # None THEN min_duration[1] ELSE duration,
     step |-> step]

\* The type dispatch that opens SlidingSegments.iter_segments
SlidingDispatch(obj, src) ==
    CASE src.shape = "Annotation" ->
            [err |-> NoError, segments |-> GetTimeline(src.annotation)]
      [] src.shape = "Timeline" ->
            [err |-> NoError, segments |-> src.segments]
      [] src.shape = "Segment" ->
            [err |-> NoError, segments |-> <<src.segment>>]
      [] src.shape = "float" ->
            IF ~(obj.duration > 0)
            THEN [err |-> DurationError, segments |-> <<>>]
            ELSE [err |-> NoError, segments |-> <<Segment(0, src.value)>>]
      [] OTHER ->
            [err |-> SourceTypeError, segments |-> <<>>]

\* pyannote.core's SlidingWindow(duration, step, start, end) refuses a
\* duration or a step that is not strictly positive
SlidingWindowOk(duration, step) == duration > 0 /\ step > 0

\* The i-th window of SlidingWindow(duration, step, start=segment.start, ...)
WindowAt(obj, segment, i) ==
    Segment(segment.start + i * obj.step,
            segment.start + i * obj.step + obj.duration)

\* (a test that drops a clipped window of exactly min_duration)
ClipLongerThan(obj, candidate) == Duration(candidate) > obj.min_duration

\* `candidate.duration >= self.min_duration`
ClipAccepted(obj, candidate) == Duration(candidate) >= obj.min_duration

\* One pull of SlidingSegments.iter_segments from the frame (k, i): k is the
\* index of the segment of the outer for loop and i the index of the window
\* of the inner one (-1 at the top of the outer loop's body).  The result is
\* the frame at the next yield, at the end of the body, or at the exception.
RECURSIVE SlidingRun(_, _, _, _)
SlidingRun(obj, segs, k, i) ==
    IF k > Len(segs)
    THEN [at |-> "done", k |-> k, i |-> -1, value |-> NoValue, err |-> NoError]
    ELSE LET segment == segs[k] IN
      IF i = -1
      THEN IF Duration(segment) < obj.min_duration
           THEN SlidingRun(obj, segs, k + 1, -1)
           ELSE IF Duration(segment) < obj.duration
           THEN IF obj.variable_length_
                THEN [at |-> "yield", k |-> k + 1, i |-> -1,
                      value |-> <<segment>>, err |-> NoError]
                ELSE SlidingRun(obj, segs, k + 1, -1)
           ELSE IF ~SlidingWindowOk(obj.duration, obj.step)
           THEN [at |-> "raise", k |-> k, i |-> -1,
                 value |-> NoValue, err |-> WindowError]
           ELSE SlidingRun(obj, segs, k, 0)
      ELSE LET s == WindowAt(obj, segment, i) IN
           IF s.start >= segment.end
           THEN SlidingRun(obj, segs, k + 1, -1)
           ELSE IF SegmentContains(segment, s)
           THEN [at |-> "yield", k |-> k, i |-> i + 1,
                 value |-> <<s>>, err |-> NoError]
           ELSE IF obj.variable_length_
           THEN LET candidate == Intersect(s, segment) IN
                IF ClipAccepted(obj, candidate)
                THEN [at |-> "yield", k |-> k + 1, i |-> -1,
                      value |-> <<candidate>>, err |-> NoError]
                ELSE SlidingRun(obj, segs, k + 1, -1)
           ELSE SlidingRun(obj, segs, k, i + 1)

SlidingSegs == {Segment(s, s + l) : s \in 0..1, l \in 1..MaxLen}

SlidingTimelines == {SortSegs(S) : S \in {X \in SUBSET SlidingSegs : Cardinality(X) <= 2}}

SlidingAnnotations ==
    {[key \in {<<seg, 1>> : seg \in S} |-> 1] :
        S \in {X \in SUBSET SlidingSegs : Cardinality(X) <= 2}}

SlidingSources ==
    {FloatSource(t) : t \in 0..MaxLen}
    \cup {SegmentSource(seg) : seg \in SlidingSegs}
    \cup {TimelineSource(tl) : tl \in SlidingTimelines}
    \cup {AnnotationSource(ann) : ann \in SlidingAnnotations}
    \cup {OtherSource}

SlidingInit ==
    /\ self = NoObject
    /\ source = NoSource
    /\ pc = "new"
    /\ err = NoError
    /\ out = <<>>
    /\ loc = NoFrame
    /\ last = NoValue
    /\ hist = NoHistory

\* generator = SlidingSegments(duration, step, min_duration)
SlidingConstruct ==
    /\ pc = "new"
    /\ \E duration \in -1..MaxDur, step \in -1..MaxDur,
          min_duration \in {None} \cup {Some(m) : m \in 0..MaxDur} :
          self' = SlidingSegmentsNew(duration, step, min_duration)
    /\ pc' = "ready"
    /\ UNCHANGED <<source, err, out, loc, last, hist>>

\* it = generator.iter_segments(source): the body has not started
SlidingCall ==
    /\ pc = "ready"
    /\ \E src \in SlidingSources : source' = src
    /\ pc' = "called"
    /\ loc' = [at |-> "start"]
    /\ UNCHANGED <<self, err, out, last, hist>>

\* next(it)
SlidingNext ==
    /\ pc \in {"called", "running"}
    /\ LET d == SlidingDispatch(self, source)
           segs == IF pc = "called" THEN d.segments ELSE loc.segments
           r == IF pc = "called" /\ d.err # NoError
                THEN [at |-> "raise", k |-> 1, i |-> -1,
                      value |-> NoValue, err |-> d.err]
                ELSE IF pc = "called"
                THEN SlidingRun(self, segs, 1, -1)
                ELSE SlidingRun(self, segs, loc.k, loc.i)
       IN /\ loc' = [at |-> r.at, segments |-> segs, k |-> r.k, i |-> r.i]
          /\ out' = out \o r.value
          /\ err' = r.err
          /\ pc' = CASE r.at = "yield" -> "running"
                     [] r.at = "raise" -> "error"
                     [] OTHER -> "done"
    /\ UNCHANGED <<self, source, last, hist>>

SlidingStep == SlidingConstruct \/ SlidingCall \/ SlidingNext

SpecSliding == SlidingInit /\ [][SlidingStep]_vars

-----------------------------------------------------------------------------
(* Claims about SlidingSegments *)

RECURSIVE Concat(_)
Concat(seqs) == IF seqs = <<>> THEN <<>> ELSE Head(seqs) \o Concat(Tail(seqs))

IsPrefix(a, b) == Len(a) <= Len(b) /\ \A j \in 1..Len(a) : a[j] = b[j]

\* floor((L - D) / S) + 1 windows of duration D at stride S, none when L < D
FullWindows(seg, D, S) ==
    LET n == IF Duration(seg) >= D THEN (Duration(seg) - D) \div S + 1 ELSE 0
    IN [j \in 1..n |-> Segment(seg.start + (j - 1) * S, seg.start + (j - 1) * S + D)]

\* the full windows, then the first overrunning window clipped, if long enough
VariableWindows(seg, D, S, m) ==
    IF Duration(seg) < m THEN <<>>
    ELSE IF Duration(seg) < D THEN <<seg>>
    ELSE LET full == FullWindows(seg, D, S)
             t == seg.start + Len(full) * S
         IN full \o (IF t < seg.end /\ seg.end - t >= m
                     THEN <<Segment(t, seg.end)>> ELSE <<>>)

SlidingStarted == pc \in {"running", "done"} /\ self.class = "SlidingSegments"

FixedMode == ~self.variable_length_ /\ self.duration > 0 /\ self.step > 0

VariableMode ==
    /\ self.variable_length_ /\ self.duration > 0 /\ self.step > 0
    /\ self.min_duration <= self.duration

\* C1: in fixed-length mode (no min_duration, duration D > 0, step S > 0) a
\* source interval of length L starting at t0 yields exactly
\* floor((L-D)/S)+1 windows when L >= D, the i-th being
\* [t0+i*S, t0+i*S+D], in increasing start order, and none when L < D; the
\* output for a source is the concatenation of its intervals' windows.
C1_FixedLengthWindows ==
    (SlidingStarted /\ FixedMode) =>
        LET expected == Concat([k \in 1..Len(loc.segments) |->
                           FullWindows(loc.segments[k], self.duration, self.step)])
        IN /\ IsPrefix(out, expected)
           /\ pc = "done" => out = expected

\* C1 witness: a single interval sliced into several windows, with a
\* remainder that the floor discards
C1_Witness ==
    /\ SlidingStarted /\ FixedMode /\ pc = "done"
    /\ source.shape = "Segment"
    /\ Len(out) >= 2
    /\ (Duration(source.segment) - self.duration) % self.step # 0

C3_ConstructionRejectsNonPositive ==
    self.class = "SlidingSegments" => (self.duration > 0 /\ self.step > 0)

-----------------------------------------------------------------------------
(* random_segment, random_subsegment, remove_short_segment, RandomSegments *)

\* random_segment: the indices np.random.choice(n_segments, p=p) can return;
\* with weighted=True an index of probability 0 (duration 0) is never drawn
RandomSegmentChoices(segments, weighted) ==
    {j \in 1..Len(segments) : weighted => Duration(segments[j]) > 0}

\* (a draw of the start time over the whole segment instead of
\* [segment.start, segment.end - duration])
RandomSubsegmentUnclamped(segment, duration, r) ==
    LET t == segment.start + (r * Duration(segment)) \div RandDen
    IN Segment(t, t + duration)

\* random_subsegment(segment, duration) with random.random() = r / RandDen
RandomSubsegment(segment, duration, r) ==
    LET t == segment.start + (r * (Duration(segment) - duration)) \div RandDen
    IN Segment(t, t + duration)

\* remove_short_segment: keeps the segments strictly longer than shorter_than
RemoveShortSegment(timeline, shorter_than) ==
    LET Keep(s) == Duration(s) > shorter_than
    IN SelectSeq(timeline, Keep)

\* RandomSegments.__init__
RandomSegmentsNew(duration, weighted) ==
    [class |-> "RandomSegments", duration |-> duration, weighted |-> weighted]

\* The type dispatch that opens RandomSegments.iter_segments; the float
\* branch reads `duration`, a name bound nowhere in its scope
RandomDispatch(obj, src) ==
    CASE src.shape = "Annotation" ->
            [err |-> NoError, segments |-> GetTimeline(src.annotation)]
      [] src.shape = "Timeline" ->
            [err |-> NoError, segments |-> src.segments]
      [] src.shape = "Segment" ->
            [err |-> NoError, segments |-> <<src.segment>>]
      [] src.shape = "float" ->
            IF ~(obj.duration > 0)
            THEN [err |-> DurationError, segments |-> <<>>]
            ELSE [err |-> UndefinedNameError, segments |-> <<>>]
      [] OTHER ->
            [err |-> SourceTypeError, segments |-> <<>>]

\* `segments = [segment for segment in segments
\*              if segment.duration > self.duration]`
RandomEligible(obj, segments) ==
    LET Keep(s) == Duration(s) > obj.duration
    IN SelectSeq(segments, Keep)

\* RandomSegments.iter_segments up to its endless loop: the exception it
\* raises at the first pull, or the segments the loop draws from
RandomOpen(obj, src) ==
    LET d == RandomDispatch(obj, src)
        eligible == RandomEligible(obj, d.segments)
    IN IF d.err # NoError THEN d
       ELSE IF eligible = <<>> THEN [err |-> NoSegmentError, segments |-> <<>>]
       ELSE [err |-> NoError, segments |-> eligible]

\* One turn of the endless loop of RandomSegments.iter_segments: the values
\* it can yield (a drawn segment shorter than duration is skipped)
RandomDraws(obj, segments) ==
    IF obj.duration # 0
    THEN {RandomSubsegment(segments[j], obj.duration, r) :
            j \in {x \in RandomSegmentChoices(segments, obj.weighted) :
                     ~(Duration(segments[x]) < obj.duration)},
            r \in 0..(RandDen - 1)}
    ELSE {segments[j] : j \in RandomSegmentChoices(segments, obj.weighted)}

\* Segments on the grid of RandDen ticks
GridSegment(s, l) == Segment(RandDen * s, RandDen * (s + l))

RandomSegs == {GridSegment(s, l) : s \in 0..1, l \in 1..MaxDur}

RandomTimelines == {SortSegs(S) : S \in {X \in SUBSET RandomSegs : Cardinality(X) <= 2}}

RandomAnnotations ==
    {[key \in {<<seg, 1>> : seg \in S} |-> 1] :
        S \in {X \in SUBSET RandomSegs : Cardinality(X) <= 2}}

RandomSources ==
    {FloatSource(RandDen * t) : t \in 0..MaxDur}
    \cup {SegmentSource(seg) : seg \in RandomSegs}
    \cup {TimelineSource(tl) : tl \in RandomTimelines}
    \cup {AnnotationSource(ann) : ann \in RandomAnnotations}
    \cup {OtherSource}

RandomInit ==
    /\ self = NoObject
    /\ source = NoSource
    /\ pc = "new"
    /\ err = NoError
    /\ out = <<>>
    /\ loc = NoFrame
    /\ last = NoValue
    /\ hist = NoHistory

\* generator = RandomSegments(duration, weighted)
RandomConstruct ==
    /\ pc = "new"
    /\ \E d \in 0..MaxDur, weighted \in BOOLEAN :
          self' = RandomSegmentsNew(RandDen * d, weighted)
    /\ pc' = "ready"
    /\ UNCHANGED <<source, err, out, loc, last, hist>>

\* it = generator.iter_segments(source): the body has not started
RandomCall ==
    /\ pc = "ready"
    /\ \E src \in RandomSources : source' = src
    /\ pc' = "called"
    /\ loc' = [at |-> "start", segments |-> <<>>]
    /\ UNCHANGED <<self, err, out, last, hist>>

\* next(it)
RandomNext ==
    /\ pc \in {"called", "running"}
    /\ hist.pulls < MaxPulls
    /\ LET o == RandomOpen(self, source)
           failed == pc = "called" /\ o.err # NoError
           segments == IF pc = "called" THEN o.segments ELSE loc.segments
       IN IF failed
          THEN /\ err' = o.err
               /\ pc' = "error"
               /\ loc' = [at |-> "raise", segments |-> <<>>]
               /\ last' = last
          ELSE /\ \E v \in RandomDraws(self, segments) : last' = <<v>>
               /\ pc' = "running"
               /\ loc' = [at |-> "yield", segments |-> segments]
               /\ err' = err
    /\ hist' = [pulls |-> hist.pulls + 1]
    /\ UNCHANGED <<self, source, out>>

RandomStep == RandomConstruct \/ RandomCall \/ RandomNext

SpecRandom == RandomInit /\ [][RandomStep]_vars

\* The segments of a source that is one of the three collections
SourceSegments ==
    CASE source.shape = "Annotation" -> RangeOf(GetTimeline(source.annotation))
      [] source.shape = "Timeline" -> RangeOf(source.segments)
      [] source.shape = "Segment" -> {source.segment}
      [] OTHER -> {}

RandomPulled == self.class = "RandomSegments" /\ pc \in {"running", "error"}

\* C4: on a Segment, Timeline or Annotation source the first pull fails with
\* the no-eligible-segment error exactly when every interval is shorter than
\* the target duration; an interval whose duration equals it is eligible
C4_FailsIffAllShorter ==
    (RandomPulled /\ source.shape \in {"Segment", "Timeline", "Annotation"}) =>
        ((err = NoSegmentError) <=>
            (\A seg \in SourceSegments : Duration(seg) < self.duration))

\* C5: with a target duration d > 0 every yielded interval lasts exactly d
\* and lies within one interval of the source
C5_CroppedWithinSource ==
    (RandomPulled /\ self.duration > 0 /\ last # NoValue) =>
        /\ Duration(last[1]) = self.duration
        /\ \E seg \in SourceSegments : SegmentContains(seg, last[1])

\* C5 witness: a cropped draw that starts strictly inside its source
\* interval and ends strictly before its end, from a two-interval source
C5_Witness ==
    /\ RandomPulled /\ self.duration > 0 /\ last # NoValue
    /\ Cardinality(SourceSegments) = 2
    /\ hist.pulls >= 2
    /\ \E seg \in SourceSegments :
          seg.start < last[1].start /\ last[1].end < seg.end

-----------------------------------------------------------------------------
(* Annotations handed to the label-aware generators *)

\* Candidate segments: the i-th starts at i-1 and lasts i (in units of
\* RandDen ticks), so that they overlap and differ in duration
AnnSegs == {GridSegment(j - 1, j) : j \in 1..NumSegs}

AnnKeys == AnnSegs \X (1..NumTracks)

Annotations ==
    UNION {[K -> 1..NumLabels] :
             K \in {X \in SUBSET AnnKeys : Cardinality(X) <= MaxEntries}}

\* Annotation.labels() returns the labels sorted
RECURSIVE SortLabels(_)
SortLabels(S) ==
    IF S = {} THEN <<>>
    ELSE LET m == CHOOSE x \in S : \A y \in S : x <= y
         IN <<m>> \o SortLabels(S \ {m})

-----------------------------------------------------------------------------
(* RandomSegmentsPerLabel *)

\* RandomSegmentsPerLabel.__init__
RandomSegmentsPerLabelNew(per_label, duration, yield_label) ==
    [class |-> "RandomSegmentsPerLabel", per_label |-> per_label,
     duration |-> duration, yield_label |-> yield_label]

\* (a loop that stops one sample late)
PerLabelBreakLate(obj, s) == s = obj.per_label + 1

\* `if s == self.per_label: break`
PerLabelBreak(obj, s) == s = obj.per_label

\* `timeline = from_annotation.label_timeline(label)`, shortened when
\* duration > 0
PerLabelTimeline(obj, ann, label) ==
    IF obj.duration > 0
    THEN RemoveShortSegment(LabelTimeline(ann, label), obj.duration)
    ELSE LabelTimeline(ann, label)

\* One pull of RandomSegmentsPerLabel.iter_segments up to the draw it
\* yields: li is the index of the label of the outer loop and s the value
\* of the enumerate counter the inner loop reaches next.
RECURSIVE PerLabelSeek(_, _, _, _, _)
PerLabelSeek(obj, ann, labels, li, s) ==
    IF li > Len(labels)
    THEN [at |-> "done", li |-> li, s |-> 0, segments |-> <<>>, err |-> NoError]
    ELSE LET timeline == PerLabelTimeline(obj, ann, labels[li])
             o == RandomOpen(RandomSegmentsNew(obj.duration, TRUE),
                             TimelineSource(timeline))
         IN IF obj.duration > 0 /\ timeline = <<>>
            THEN PerLabelSeek(obj, ann, labels, li + 1, 0)
            ELSE IF o.err # NoError
            THEN [at |-> "raise", li |-> li, s |-> s, segments |-> <<>>,
                  err |-> o.err]
            ELSE IF PerLabelBreak(obj, s)
            THEN PerLabelSeek(obj, ann, labels, li + 1, 0)
            ELSE [at |-> "yield", li |-> li, s |-> s + 1,
                  segments |-> o.segments, err |-> NoError]

PerLabelInit ==
    /\ self = NoObject
    /\ source = NoSource
    /\ pc = "new"
    /\ err = NoError
    /\ out = <<>>
    /\ loc = NoFrame
    /\ last = NoValue
    /\ hist = [pulls |-> 0, label |-> 0, run |-> 0, ordered |-> TRUE]

\* generator = RandomSegmentsPerLabel(per_label, duration, yield_label)
PerLabelConstruct ==
    /\ pc = "new"
    /\ \E per_label \in 0..MaxPerLabel, d \in 0..MaxDur, yield_label \in BOOLEAN :
          self' = RandomSegmentsPerLabelNew(per_label, RandDen * d, yield_label)
    /\ pc' = "ready"
    /\ UNCHANGED <<source, err, out, loc, last, hist>>

\* it = generator.iter_segments(from_annotation): the body has not started
PerLabelCall ==
    /\ pc = "ready"
    /\ \E ann \in Annotations : source' = AnnotationSource(ann)
    /\ pc' = "called"
    /\ loc' = [at |-> "start", li |-> 1, s |-> 0]
    /\ UNCHANGED <<self, err, out, last, hist>>

\* next(it)
PerLabelNext ==
    /\ pc \in {"called", "running"}
    /\ LET ann == source.annotation
           labels == SortLabels(Labels(ann))
           r == PerLabelSeek(self, ann, labels, loc.li, loc.s)
       IN /\ loc' = [at |-> r.at, li |-> r.li, s |-> r.s]
          /\ err' = r.err
          /\ pc' = CASE r.at = "yield" -> "running"
                     [] r.at = "raise" -> "error"
                     [] OTHER -> "done"
          /\ IF r.at = "yield"
             THEN /\ \E v \in RandomDraws(RandomSegmentsNew(self.duration, TRUE),
                                          r.segments) :
                        last' = IF self.yield_label
                                THEN <<(<<v, labels[r.li]>>)>> ELSE <<v>>
                  /\ hist' = [pulls |-> hist.pulls + 1,
                              label |-> labels[r.li],
                              run |-> IF labels[r.li] = hist.label
                                      THEN hist.run + 1 ELSE 1,
                              ordered |-> hist.ordered /\ labels[r.li] >= hist.label]
             ELSE /\ last' = last
                  /\ hist' = [hist EXCEPT !.pulls = @ + 1]
    /\ UNCHANGED <<self, source, out>>

PerLabelStep == PerLabelConstruct \/ PerLabelCall \/ PerLabelNext

SpecPerLabel == PerLabelInit /\ [][PerLabelStep]_vars

\* The segment of the sample most recently yielded
LastSample == IF self.yield_label THEN last[1][1] ELSE last[1]

PerLabelStarted == self.class = "RandomSegmentsPerLabel" /\ pc \in {"running", "done", "error"}

\* C10: RandomSegmentsPerLabel.iter_segments raises no error, visits the
\* labels in label order, yields for a label only samples drawn from that
\* label's own intervals (of the target duration when one is set, so a
\* label with no interval long enough yields nothing), and never more than
\* per_label samples of the same label in a row
C10_PerLabelBalanced ==
    PerLabelStarted =>
        /\ pc # "error" /\ err = NoError
        /\ hist.ordered
        /\ hist.run <= self.per_label
        /\ last # NoValue =>
              /\ \E seg \in RangeOf(LabelTimeline(source.annotation, hist.label)) :
                    SegmentContains(seg, LastSample)
              /\ self.duration > 0 => Duration(LastSample) = self.duration
              /\ self.yield_label => last[1][2] = hist.label

\* C10 witness: the generator ended after yielding per_label = 2 samples of
\* the last of three labels, one label having been skipped because all of
\* its intervals are too short
C10_Witness ==
    /\ PerLabelStarted /\ pc = "done"
    /\ self.per_label = 2 /\ hist.run = 2 /\ self.duration > 0
    /\ Cardinality(Labels(source.annotation)) = 3
    /\ hist.pulls = 5
    /\ \E l \in Labels(source.annotation) :
          PerLabelTimeline(self, source.annotation, l) = <<>>

-----------------------------------------------------------------------------
(* RandomTracks, RandomTrackTriplets, RandomSegmentTriplets, RandomSegmentPairs *)

\* RandomTracks.iter_tracks: the values one pull can yield, none when the
\* annotation is empty (random.randrange(0) raises ValueError)
TrackDraws(ann, yield_label) ==
    UNION {{IF yield_label THEN <<segment, track, ann[<<segment, track>>]>>
                           ELSE <<segment, track>> :
              track \in GetTracks(ann, segment)} :
           segment \in RangeOf(GetTimeline(ann))}

\* RandomTrackTriplets.__init__
RandomTrackTripletsNew(per_label, yield_label) ==
    [class |-> "RandomTrackTriplets", per_label |-> per_label,
     yield_label |-> yield_label]

\* RandomSegmentTriplets.__init__
RandomSegmentTripletsNew(duration, per_label, yield_label) ==
    [class |-> "RandomSegmentTriplets", duration |-> duration,
     per_label |-> per_label, yield_label |-> yield_label]

\* RandomSegmentPairs.__init__
RandomSegmentPairsNew(duration, per_label, yield_label) ==
    [class |-> "RandomSegmentPairs", duration |-> duration,
     per_label |-> per_label, yield_label |-> yield_label]

\* (a loop body that uses one positive draw as anchor and as positive)
TripletDrawsShared(ann, label, yield_label) ==
    {[anchor |-> a, positive |-> a, negative |-> n, pos |-> 1, neg |-> 1] :
        a \in TrackDraws(Subset(ann, label, FALSE), yield_label),
        n \in TrackDraws(Subset(ann, label, TRUE), yield_label)}

\* The body of the `for _ in range(self.per_label)` loop of
\* RandomTrackTriplets.iter_triplets: anchor = next(positives), positive =
\* next(positives), negative = next(negatives); pos and neg count the draws
TripletDraws(ann, label, yield_label) ==
    {[anchor |-> a, positive |-> p, negative |-> n, pos |-> 2, neg |-> 1] :
        a \in TrackDraws(Subset(ann, label, FALSE), yield_label),
        p \in TrackDraws(Subset(ann, label, FALSE), yield_label),
        n \in TrackDraws(Subset(ann, label, TRUE), yield_label)}

\* The loops of RandomTrackTriplets.iter_triplets up to the next run of
\* the inner loop's body: li is the index of the label, n the number of
\* turns of the inner loop made for it
RECURSIVE TripletSeek(_, _, _, _)
TripletSeek(obj, labels, li, n) ==
    IF li > Len(labels) THEN [at |-> "done", li |-> li, n |-> 0]
    ELSE IF n < obj.per_label THEN [at |-> "body", li |-> li, n |-> n]
    ELSE TripletSeek(obj, labels, li + 1, 0)

\* RandomSegmentTriplets.iter_triplets: the annotation without the tracks
\* whose segment is shorter than duration
LongEnough(ann, duration) ==
    [key \in {x \in Keys(ann) : ~(Duration(x[1]) < duration)} |-> ann[key]]

\* The annotation RandomTrackTriplets.iter_triplets works on
WorkAnnotation(obj, ann) ==
    IF obj.class = "RandomTrackTriplets" THEN ann
    ELSE LongEnough(ann, obj.duration)

\* (an early return taken only when no label remains)
TooFewLabelsOffByOne(obj, ann) ==
    /\ obj.class # "RandomTrackTriplets"
    /\ Cardinality(Labels(WorkAnnotation(obj, ann))) < 1

\* `if len(annotation.labels()) < 2: return`
TooFewLabels(obj, ann) ==
    /\ obj.class # "RandomTrackTriplets"
    /\ Cardinality(Labels(WorkAnnotation(obj, ann))) < 2

\* RandomSegmentTriplets.pick with random.random() = r / RandDen
Pick(obj, segment, r) ==
    LET t == segment.start + (r * (Duration(segment) - obj.duration)) \div RandDen
    IN Segment(t, t + obj.duration)

\* The triplets RandomSegmentTriplets.iter_triplets can yield for one
\* triplet of tracks
SegmentTriplets(obj, triplet) ==
    LET crops == IF obj.duration # 0 THEN 0..(RandDen - 1) ELSE {0}
        Crop(s, r) == IF obj.duration # 0 THEN Pick(obj, s, r) ELSE s
    IN {IF obj.yield_label
        THEN << <<Crop(triplet[1][1], ra), triplet[1][3]>>,
                <<Crop(triplet[2][1], rp), triplet[2][3]>>,
                <<Crop(triplet[3][1], rn), triplet[3][3]>> >>
        ELSE << Crop(triplet[1][1], ra), Crop(triplet[2][1], rp),
                Crop(triplet[3][1], rn) >> :
          ra \in crops, rp \in crops, rn \in crops}

\* (a second pair built from the positive)
SecondPairOfPositive(triplet) == << <<triplet[1], triplet[2]>>, FALSE >>

\* `yield [(query, positive), True]`
FirstPair(triplet) == << <<triplet[1], triplet[2]>>, TRUE >>

\* `yield [(query, negative), False]`
SecondPair(triplet) == << <<triplet[1], triplet[3]>>, FALSE >>

NoTripletHistory ==
    [pulls |-> 0, label |-> 0, first_anchor |-> <<>>, pos |-> 0, neg |-> 0,
     emitted |-> 0, tracks |-> <<>>, triplet |-> <<>>,
     n_triplets |-> 0, n_pairs |-> 0]

TripletsInit ==
    /\ self = NoObject
    /\ source = NoSource
    /\ pc = "new"
    /\ err = NoError
    /\ out = <<>>
    /\ loc = NoFrame
    /\ last = NoValue
    /\ hist = NoTripletHistory

\* generator = RandomTrackTriplets(per_label, yield_label)
TrackTripletsConstruct ==
    /\ pc = "new"
    /\ \E per_label \in 0..MaxPerLabel, yield_label \in BOOLEAN :
          self' = RandomTrackTripletsNew(per_label, yield_label)
    /\ pc' = "ready"
    /\ UNCHANGED <<source, err, out, loc, last, hist>>

\* generator = RandomSegmentTriplets(duration, per_label, yield_label)
SegmentTripletsConstruct ==
    /\ pc = "new"
    /\ \E d \in 0..NumSegs, per_label \in 0..MaxPerLabel, yield_label \in BOOLEAN :
          self' = RandomSegmentTripletsNew(RandDen * d, per_label, yield_label)
    /\ pc' = "ready"
    /\ UNCHANGED <<source, err, out, loc, last, hist>>

\* generator = RandomSegmentPairs(duration, per_label, yield_label)
SegmentPairsConstruct ==
    /\ pc = "new"
    /\ \E d \in 0..NumSegs, per_label \in 0..MaxPerLabel, yield_label \in BOOLEAN :
          self' = RandomSegmentPairsNew(RandDen * d, per_label, yield_label)
    /\ pc' = "ready"
    /\ UNCHANGED <<source, err, out, loc, last, hist>>

\* it = generator.iter_triplets(from_annotation) or
\* generator.iter_pairs(from_annotation): the body has not started
TripletsCall ==
    /\ pc = "ready"
    /\ \E ann \in Annotations : source' = AnnotationSource(ann)
    /\ pc' = "called"
    /\ loc' = [at |-> "start", li |-> 1, n |-> 0, second |-> FALSE]
    /\ UNCHANGED <<self, err, out, last, hist>>

\* The generator ends: the label loop is over, or too few labels remain
TripletsEnd(r) ==
    /\ pc' = "done"
    /\ loc' = [at |-> "done", li |-> r.li, n |-> r.n, second |-> FALSE]
    /\ hist' = [hist EXCEPT !.pulls = @ + 1]
    /\ UNCHANGED <<err, last>>

\* random.randrange(0) raises in RandomTracks.iter_tracks, and
\* `except StopIteration` does not catch it
TripletsRaise(r) ==
    /\ pc' = "error"
    /\ err' = EmptyRangeError
    /\ loc' = [at |-> "raise", li |-> r.li, n |-> r.n, second |-> FALSE]
    /\ hist' = [hist EXCEPT !.pulls = @ + 1]
    /\ UNCHANGED last

\* One run of the inner loop's body of RandomTrackTriplets.iter_triplets,
\* and what RandomSegmentTriplets and RandomSegmentPairs yield from it
TripletsYield(r, work, label) ==
    \E d \in TripletDraws(work, label, self.yield_label) :
      LET tracks == <<d.anchor, d.positive, d.negative>>
          fresh == hist.label # label
          h == [hist EXCEPT
                  !.pulls = @ + 1,
                  !.label = label,
                  !.first_anchor = IF fresh THEN d.anchor ELSE @,
                  !.pos = IF fresh THEN d.pos ELSE @ + d.pos,
                  !.neg = IF fresh THEN d.neg ELSE @ + d.neg,
                  !.emitted = IF fresh THEN 1 ELSE @ + 1,
                  !.tracks = tracks]
      IN /\ pc' = "running"
         /\ err' = err
         /\ IF self.class = "RandomTrackTriplets"
            THEN /\ last' = <<tracks>>
                 /\ hist' = h
                 /\ loc' = [at |-> "yield", li |-> r.li, n |-> r.n + 1,
                            second |-> FALSE]
            ELSE \E triplet \in SegmentTriplets(self, tracks) :
                 /\ last' = IF self.class = "RandomSegmentPairs"
                            THEN <<FirstPair(triplet)>> ELSE <<triplet>>
                 /\ hist' = [h EXCEPT
                               !.triplet = triplet,
                               !.n_triplets = @ + 1,
                               !.n_pairs = IF self.class = "RandomSegmentPairs"
                                           THEN @ + 1 ELSE @]
                 /\ loc' = [at |-> "yield", li |-> r.li, n |-> r.n + 1,
                            second |-> (self.class = "RandomSegmentPairs")]

\* The second yield of the body of the loop of RandomSegmentPairs.iter_pairs
PairsSecondYield ==
    /\ last' = <<SecondPair(hist.triplet)>>
    /\ hist' = [hist EXCEPT !.pulls = @ + 1, !.n_pairs = @ + 1]
    /\ loc' = [loc EXCEPT !.second = FALSE]
    /\ UNCHANGED <<pc, err>>

\* next(it)
TripletsNext ==
    /\ pc \in {"called", "running"}
    /\ LET work == WorkAnnotation(self, source.annotation)
           labels == SortLabels(Labels(work))
           r == TripletSeek(self, labels, loc.li, loc.n)
       IN IF loc.second THEN PairsSecondYield
          ELSE IF TooFewLabels(self, source.annotation)
          THEN TripletsEnd([li |-> loc.li, n |-> loc.n])
          ELSE IF r.at = "done" THEN TripletsEnd(r)
          ELSE IF TripletDraws(work, labels[r.li], self.yield_label) = {}
          THEN TripletsRaise(r)
          ELSE TripletsYield(r, work, labels[r.li])
    /\ UNCHANGED <<self, source, out>>

TripletsStep ==
    \/ TrackTripletsConstruct
    \/ SegmentTripletsConstruct
    \/ SegmentPairsConstruct
    \/ TripletsCall
    \/ TripletsNext

SpecTriplets == TripletsInit /\ [][TripletsStep]_vars

-----------------------------------------------------------------------------
(* Claims about the triplet and pair generators *)

\* The (segment, track) key of an item yielded by RandomTracks
TrackKey(item) == <<item[1], item[2]>>

TrackTripletYielded == self.class = "RandomTrackTriplets" /\ last # NoValue

\* C6 (as stated): for each label the anchor is drawn once, every triplet of
\* the label carries that anchor, and each emitted triplet consumes one
\* further positive draw and one negative draw
C6_AnchorDrawnOnce ==
    TrackTripletYielded =>
        /\ last[1][1] = hist.first_anchor
        /\ hist.pos = hist.emitted + 1
        /\ hist.neg = hist.emitted

\* C6 (amended): every emitted triplet draws its own anchor: by the time a
\* label has emitted k triplets (k <= per_label) its positive stream has
\* been drawn from exactly 2k times (anchor, then positive, for each
\* triplet) and its negative stream exactly k times, and each anchor is a
\* track of that label
C6_AnchorDrawnPerTriplet ==
    TrackTripletYielded =>
        /\ hist.pos = 2 * hist.emitted
        /\ hist.neg = hist.emitted
        /\ hist.emitted \in 1..self.per_label
        /\ last[1][1] \in TrackDraws(Subset(source.annotation, hist.label, FALSE),
                                    self.yield_label)

\* C6 witness: the second triplet of a label carries another anchor than
\* the first
C6_Witness ==
    /\ TrackTripletYielded
    /\ hist.emitted = 2
    /\ last[1][1] # hist.first_anchor

\* C7: in every triplet yielded by RandomTrackTriplets and by
\* RandomSegmentTriplets (cropped or not) the tracks chosen as anchor and as
\* positive carry the same label in the source annotation and the track
\* chosen as negative carries another one; the yielded items are those
\* tracks, or segments within (and the labels of) those tracks
C7_TripletLabels ==
    (self.class \in {"RandomTrackTriplets", "RandomSegmentTriplets"}
        /\ last # NoValue) =>
        LET ann == source.annotation
            chosen == hist.tracks
            LabelOf(j) == ann[TrackKey(chosen[j])]
            Yielded(j) == IF self.yield_label THEN last[1][j][1] ELSE last[1][j]
        IN /\ \A j \in 1..3 : TrackKey(chosen[j]) \in Keys(ann)
           /\ LabelOf(1) = LabelOf(2)
           /\ LabelOf(3) # LabelOf(1)
           /\ self.class = "RandomTrackTriplets" => last[1] = chosen
           /\ self.class = "RandomSegmentTriplets" =>
                \A j \in 1..3 :
                    /\ SegmentContains(chosen[j][1], Yielded(j))
                    /\ self.yield_label => last[1][j][2] = LabelOf(j)

\* C7 witness: a cropped, labelled segment triplet whose anchor and
\* positive come from two different tracks
C7_Witness ==
    /\ self.class = "RandomSegmentTriplets" /\ last # NoValue
    /\ self.duration > 0 /\ self.yield_label
    /\ TrackKey(hist.tracks[1]) # TrackKey(hist.tracks[2])
    /\ hist.tracks[1][1] # last[1][1][1]

\* C8: when the positive or negative restriction of a label is empty the
\* label contributes nothing and no error reaches the caller of
\* RandomTrackTriplets.iter_triplets
C8_ExhaustionIsSilent ==
    self.class = "RandomTrackTriplets" => (pc # "error" /\ err = NoError)

\* C9: RandomSegmentPairs.iter_pairs yields, for each triplet (q, p, n) of
\* RandomSegmentTriplets, ((q, p), True) immediately followed by
\* ((q, n), False): the odd outputs are the first pair of the triplet just
\* drawn, the even ones the second pair of that same triplet, and the
\* generator ends on an even count, twice the number of triplets
C9_PairsFollowTriplets ==
    (self.class = "RandomSegmentPairs" /\ pc \in {"running", "done"}) =>
        LET q == hist.triplet[1]
            p == hist.triplet[2]
            n == hist.triplet[3]
        IN /\ hist.n_pairs % 2 = 1 =>
                /\ pc = "running"
                /\ hist.n_pairs = 2 * hist.n_triplets - 1
                /\ last[1] = << <<q, p>>, TRUE >>
           /\ hist.n_pairs % 2 = 0 =>
                /\ hist.n_pairs = 2 * hist.n_triplets
                /\ hist.n_pairs > 0 => last[1] = << <<q, n>>, FALSE >>

\* C9 witness: the pair generator ended after the two pairs of each of
\* four triplets, the last pair differing from the one before it
C9_Witness ==
    /\ self.class = "RandomSegmentPairs" /\ pc = "done"
    /\ hist.n_triplets = 4 /\ hist.n_pairs = 8
    /\ hist.triplet[2] # hist.triplet[3]

\* The labels that remain once the entries shorter than the target duration
\* are dropped, in the order of annotation.labels()
RemainingLabels == SortLabels(Labels(LongEnough(source.annotation, self.duration)))

\* The number of triplets a complete run yields
TotalTriplets ==
    IF Len(RemainingLabels) < 2 THEN 0 ELSE self.per_label * Len(RemainingLabels)

SegmentGeneratorStarted ==
    /\ self.class \in {"RandomSegmentTriplets", "RandomSegmentPairs"}
    /\ pc \in {"running", "done", "error"}

\* C14: RandomSegmentTriplets.iter_triplets terminates without error: with
\* fewer than two labels remaining after the entries shorter than duration
\* are dropped it ends at the first pull with nothing yielded; otherwise the
\* k-th triplet of the i-th remaining label (in label order) is the
\* (per_label * (i - 1) + k)-th triplet yielded, its anchor carrying that
\* label, and the run ends after per_label triplets for each remaining
\* label, with one more pull than values yielded; RandomSegmentPairs.iter_pairs
\* yields two pairs per triplet, so none in the first case
C14_TripletCountAndOrder ==
    SegmentGeneratorStarted =>
        LET pairs == self.class = "RandomSegmentPairs"
            yielded == IF pairs THEN hist.n_pairs ELSE hist.n_triplets
        IN /\ pc # "error" /\ err = NoError
           /\ hist.n_triplets <= TotalTriplets
           /\ hist.pulls = yielded + (IF pc = "done" THEN 1 ELSE 0)
           /\ pc = "done" =>
                /\ hist.n_triplets = TotalTriplets
                /\ pairs => hist.n_pairs = 2 * TotalTriplets
           /\ Len(RemainingLabels) < 2 => (pc = "done" /\ last = NoValue)
           /\ last # NoValue =>
                \E i \in 1..Len(RemainingLabels) :
                    /\ RemainingLabels[i]
                          = source.annotation[TrackKey(hist.tracks[1])]
                    /\ hist.emitted \in 1..self.per_label
                    /\ hist.n_triplets = self.per_label * (i - 1) + hist.emitted

\* C14 witness: a run over an annotation that loses an entry to the
\* duration filter and keeps two labels has ended after per_label = 2
\* triplets for each of them
C14_Witness ==
    /\ self.class = "RandomSegmentTriplets" /\ pc = "done"
    /\ self.duration > 0 /\ self.per_label = 2
    /\ Keys(LongEnough(source.annotation, self.duration)) # Keys(source.annotation)
    /\ Len(RemainingLabels) = 2
    /\ hist.n_triplets = 4 /\ hist.pulls = 5

\* C14 witness of the empty case: one label remains, and the pair generator
\* ended at its first pull
C14_WitnessNoPairs ==
    /\ self.class = "RandomSegmentPairs" /\ pc = "done"
    /\ Len(RemainingLabels) = 1
    /\ hist.n_pairs = 0 /\ hist.pulls = 1

-----------------------------------------------------------------------------
(* signature() *)

\* One position of a signature: a dictionary {'type': kind}, or a tuple or
\* list of positions
SigLeaf(kind) == [kind |-> kind, items |-> <<>>]

SigTuple(items) == [kind |-> "tuple", items |-> items]

\* RandomTracks.signature
RandomTracksSignature(yield_label) ==
    SigTuple(IF yield_label
             THEN <<SigLeaf("segment"), SigLeaf("track"), SigLeaf("label")>>
             ELSE <<SigLeaf("segment"), SigLeaf("track")>>)

\* RandomTrackTriplets.signature: [RandomTracks(...).signature()] * 3
RandomTrackTripletsSignature(obj) ==
    SigTuple([j \in 1..3 |-> RandomTracksSignature(obj.yield_label)])

\* RandomSegmentTriplets.signature: 3 * [segment, label] is the flat list
\* of six dictionaries, 3 * [segment] the list of three
RandomSegmentTripletsSignature(obj) ==
    IF obj.yield_label
    THEN SigTuple([j \in 1..6 |-> IF j % 2 = 1 THEN SigLeaf("segment")
                                             ELSE SigLeaf("label")])
    ELSE SigTuple([j \in 1..3 |-> SigLeaf("segment")])

\* RandomSegmentPairs.signature: [(signature[0], signature[0]), boolean]
\* with signature that of RandomSegmentTriplets
RandomSegmentPairsSignature(obj) ==
    LET signature == RandomSegmentTripletsSignature(obj).items
    IN SigTuple(<< SigTuple(<<signature[1], signature[1]>>), SigLeaf("boolean") >>)

\* generator.signature()
Signature(obj) ==
    CASE obj.class = "RandomTrackTriplets" -> RandomTrackTripletsSignature(obj)
      [] obj.class = "RandomSegmentTriplets" -> RandomSegmentTripletsSignature(obj)
      [] obj.class = "RandomSegmentPairs" -> RandomSegmentPairsSignature(obj)

\* The positional structure of a signature: a leaf, or a tuple of structures
RECURSIVE Structure(_)
Structure(sig) ==
    IF sig.kind # "tuple" THEN [leaf |-> TRUE, items |-> <<>>]
    ELSE [leaf |-> FALSE,
          items |-> [j \in 1..Len(sig.items) |-> Structure(sig.items[j])]]

Scalar == [leaf |-> TRUE, items |-> <<>>]

\* The structure of a tuple of n scalars
Flat(n) == [leaf |-> FALSE, items |-> [j \in 1..n |-> Scalar]]

\* The structure of a segment as the segment generators yield it: the
\* segment alone, or the tuple (segment, label) v
SegmentItem(v) == IF self.yield_label THEN Flat(Len(v)) ELSE Scalar

\* The positional structure of the value most recently yielded
YieldedStructure ==
    LET v == last[1] IN
    CASE self.class = "RandomTrackTriplets" ->
            [leaf |-> FALSE, items |-> [j \in 1..Len(v) |-> Flat(Len(v[j]))]]
      [] self.class = "RandomSegmentTriplets" ->
            [leaf |-> FALSE, items |-> [j \in 1..Len(v) |-> SegmentItem(v[j])]]
      [] self.class = "RandomSegmentPairs" ->
            [leaf |-> FALSE,
             items |-> << [leaf |-> FALSE,
                           items |-> [j \in 1..Len(v[1]) |-> SegmentItem(v[1][j])]],
                          Scalar >>]

\* C11: the value returned by signature() has the positional structure
\* (number of top-level positions, nesting of tuples) of every value the
\* generator yields, whatever yield_label; RandomSegmentTriplets' signature
\* has three top-level positions and RandomSegmentPairs' signature gives
\* query and candidate the shape iter_pairs yields
C11_SignatureMatchesYield ==
    (self.class \in {"RandomTrackTriplets", "RandomSegmentTriplets",
                     "RandomSegmentPairs"} /\ last # NoValue) =>
        Structure(Signature(self)) = YieldedStructure

-----------------------------------------------------------------------------
(* Claims about the sources of RandomSegments *)

RecognisedShapes == {"float", "Segment", "Timeline", "Annotation"}

\* C13: RandomSegments.iter_segments accepts a scalar, a Segment, a
\* Timeline and an Annotation: it raises the source type error exactly for
\* another source, a collection fails only when it has no segment long
\* enough, and a scalar source T with 0 < d < T yields segments of
\* duration d within [0, T)
C13_FourShapesAccepted ==
    RandomPulled =>
        /\ (err = SourceTypeError) <=> (source.shape \notin RecognisedShapes)
        /\ source.shape \in {"Segment", "Timeline", "Annotation"} =>
              err \in {NoError, NoSegmentError}
        /\ (source.shape = "float" /\ 0 < self.duration
              /\ self.duration < source.value) =>
              /\ pc = "running"
              /\ Duration(last[1]) = self.duration
              /\ 0 <= last[1].start /\ last[1].end <= source.value

-----------------------------------------------------------------------------
(* from_file *)

\* A file of the protocol: a dictionary with an 'annotation' field
FileRecord(ann) == [annotation |-> ann]

\* The argument of from_file
RecordSource(record) == [shape |-> "Record", record |-> record]

\* RandomTracks.__init__
RandomTracksNew(yield_label) ==
    [class |-> "RandomTracks", yield_label |-> yield_label]

\* The frame of a generator that has not started
StartFrame == [at |-> "start", li |-> 1, n |-> 0, segments |-> <<>>]

\* What one pull leaves behind: the state of the generator, the exception
\* raised, the frame, and the value yielded (None when there is none)
Raised(e, frame) ==
    [pc |-> "error", err |-> e, loc |-> [frame EXCEPT !.at = "raise"],
     value |-> None]

Yielded(v, frame) ==
    [pc |-> "running", err |-> NoError, loc |-> [frame EXCEPT !.at = "yield"],
     value |-> Some(v)]

Ended(frame) ==
    [pc |-> "done", err |-> NoError, loc |-> [frame EXCEPT !.at = "done"],
     value |-> None]

\* One pull of RandomTracks.iter_tracks(ann)
IterTracksPull(obj, ann, frame) ==
    IF TrackDraws(ann, obj.yield_label) = {}
    THEN {Raised(EmptyRangeError, frame)}
    ELSE {Yielded(v, frame) : v \in TrackDraws(ann, obj.yield_label)}

\* One pull of RandomSegments.iter_segments(ann)
IterSegmentsPull(obj, ann, frame) ==
    LET o == RandomOpen(obj, AnnotationSource(ann))
        segments == IF frame.at = "start" THEN o.segments ELSE frame.segments
    IN IF frame.at = "start" /\ o.err # NoError
       THEN {Raised(o.err, frame)}
       ELSE {Yielded(v, [frame EXCEPT !.segments = segments]) :
               v \in RandomDraws(obj, segments)}

\* One pull of RandomTrackTriplets.iter_triplets(ann)
IterTripletsPull(obj, ann, frame) ==
    LET labels == SortLabels(Labels(ann))
        r == TripletSeek(obj, labels, frame.li, frame.n)
        at == [frame EXCEPT !.li = r.li, !.n = r.n]
    IN IF r.at = "done" THEN {Ended(at)}
       ELSE IF TripletDraws(ann, labels[r.li], obj.yield_label) = {}
       THEN {Raised(EmptyRangeError, at)}
       ELSE {Yielded(<<d.anchor, d.positive, d.negative>>,
                     [at EXCEPT !.n = r.n + 1]) :
               d \in TripletDraws(ann, labels[r.li], obj.yield_label)}

\* One pull of the iterate operation of obj on an annotation
IterPull(obj, ann, frame) ==
    CASE obj.class = "RandomTracks" -> IterTracksPull(obj, ann, frame)
      [] obj.class = "RandomSegments" -> IterSegmentsPull(obj, ann, frame)
      [] obj.class = "RandomTrackTriplets" -> IterTripletsPull(obj, ann, frame)

\* One pull of from_file(current_file): `annotation =
\* current_file['annotation']`, then a loop that yields what the iterate
\* operation yields; RandomTracks.from_file passes `reference`, a name bound
\* nowhere in its scope, to iter_tracks
FromFilePull(obj, current_file, frame) ==
    LET annotation == current_file["annotation"]
    IN IF obj.class = "RandomTracks"
       THEN {Raised(UndefinedNameError, frame)}
       ELSE IterPull(obj, annotation, frame)

NoFromFileHistory == [pulls |-> 0, before |-> NoFrame]

FromFileInit ==
    /\ self = NoObject
    /\ source = NoSource
    /\ pc = "new"
    /\ err = NoError
    /\ out = <<>>
    /\ loc = NoFrame
    /\ last = NoValue
    /\ hist = NoFromFileHistory

\* generator = RandomTracks(yield_label)
RandomTracksConstruct ==
    /\ pc = "new"
    /\ \E yield_label \in BOOLEAN : self' = RandomTracksNew(yield_label)
    /\ pc' = "ready"
    /\ UNCHANGED <<source, err, out, loc, last, hist>>

\* it = generator.iter_tracks(annotation), generator.iter_segments(annotation)
\* or generator.iter_triplets(annotation): the body has not started
IterCall ==
    /\ pc = "ready"
    /\ \E ann \in Annotations : source' = AnnotationSource(ann)
    /\ pc' = "called"
    /\ loc' = StartFrame
    /\ UNCHANGED <<self, err, out, last, hist>>

\* it = generator.from_file(current_file): the body has not started
FromFileCall ==
    /\ pc = "ready"
    /\ \E ann \in Annotations : source' = RecordSource(FileRecord(ann))
    /\ pc' = "called"
    /\ loc' = StartFrame
    /\ UNCHANGED <<self, err, out, last, hist>>

\* The state after a pull whose outcome is o
PullTo(o) ==
    /\ pc' = o.pc
    /\ err' = o.err
    /\ loc' = o.loc
    /\ last' = IF o.value = None THEN last ELSE o.value
    /\ hist' = [pulls |-> hist.pulls + 1, before |-> loc]
    /\ UNCHANGED <<self, source, out>>

\* The endless generators are pulled MaxPulls times at most
MayPull ==
    /\ pc \in {"called", "running"}
    /\ self.class = "RandomTrackTriplets" \/ hist.pulls < MaxPulls

\* next(it) on a generator obtained from the iterate operation
IterNext ==
    /\ MayPull
    /\ source.shape = "Annotation"
    /\ \E o \in IterPull(self, source.annotation, loc) : PullTo(o)

\* next(it) on a generator obtained from from_file
FromFileNext ==
    /\ MayPull
    /\ source.shape = "Record"
    /\ \E o \in FromFilePull(self, source.record, loc) : PullTo(o)

FromFileStep ==
    \/ RandomTracksConstruct
    \/ RandomConstruct
    \/ TrackTripletsConstruct
    \/ IterCall
    \/ FromFileCall
    \/ IterNext
    \/ FromFileNext

SpecFromFile == FromFileInit /\ [][FromFileStep]_vars

\* C12: whatever a pull of from_file(record) leaves behind (a value
\* yielded, the end of the generator, an exception) is something the same
\* pull of the iterate operation on record['annotation'] can leave behind,
\* for RandomTracks, RandomSegments and RandomTrackTriplets
C12_FromFileIsIterate ==
    (source.shape = "Record" /\ hist.pulls > 0) =>
        \E o \in IterPull(self, source.record["annotation"], hist.before) :
            /\ pc = o.pc
            /\ err = o.err
            /\ loc = o.loc
            /\ o.value # None => last = o.value

=============================================================================
